---------------------------- MODULE Spec2Model ----------------------------
(***************************************************************************)
(* A model of python/isort/private/isort_runner.py: the process wrapper    *)
(* that merges first party source roots into an isort config file, runs    *)
(* isort as a subprocess of itself, relays sanitized output on failure and *)
(* writes a marker file on success.                                        *)
(*                                                                         *)
(* Strings are sequences of one-character strings, so that split, join,    *)
(* strip, replace, endswith and the code point order of sorted() are       *)
(* computed the way Python computes them.                                  *)
(***************************************************************************)
EXTENDS Integers, Sequences, FiniteSets, TLC

-----------------------------------------------------------------------------
(* Bounds of the model *)

\* Most entries of the src_paths value of the existing settings file
\* (SpecMerge).
MaxEntries == 2

\* Longest captured tool output (SpecRedact).
MaxOutLen == 4

\* Longest tail that follows the leading "/" of a directory (SpecRedact).
MaxPathLen == 2

-----------------------------------------------------------------------------
(* Python str operations *)

\* ord(c) for the characters the model's strings are made of.
Code(c) ==
    CASE c = " " -> 32
      [] c = "," -> 44
      [] c = "." -> 46
      [] c = "/" -> 47
      [] c = "a" -> 97
      [] c = "b" -> 98
      [] c = "c" -> 99
      [] c = "f" -> 102
      [] c = "g" -> 103
      [] c = "i" -> 105
      [] c = "j" -> 106
      [] c = "l" -> 108
      [] c = "m" -> 109
      [] c = "n" -> 110
      [] c = "o" -> 111
      [] c = "p" -> 112
      [] c = "r" -> 114
      [] c = "s" -> 115
      [] c = "t" -> 116
      [] c = "x" -> 120
      [] c = "y" -> 121

RECURSIVE StrLess(_, _)
\* s < t for two str: lexicographic by code point, a proper prefix first.
StrLess(s, t) ==
    IF t = <<>> THEN FALSE
    ELSE IF s = <<>> THEN TRUE
    ELSE IF Head(s) = Head(t) THEN StrLess(Tail(s), Tail(t))
    ELSE Code(Head(s)) < Code(Head(t))

\* s.startswith(prefix)
StartsWith(s, prefix) ==
    /\ Len(prefix) <= Len(s)
    /\ SubSeq(s, 1, Len(prefix)) = prefix

\* s.endswith(suffix)
EndsWith(s, suffix) ==
    /\ Len(suffix) <= Len(s)
    /\ SubSeq(s, Len(s) - Len(suffix) + 1, Len(s)) = suffix

\* sub in s
Contains(s, sub) ==
    \E i \in 1..(Len(s) - Len(sub) + 1) : SubSeq(s, i, i + Len(sub) - 1) = sub

RECURSIVE Split(_, _)
\* s.split(sep) for a one-character sep: "".split(",") is [""].
Split(s, sep) ==
    IF \A i \in 1..Len(s) : s[i] # sep THEN <<s>>
    ELSE LET i == CHOOSE k \in 1..Len(s) :
                      /\ s[k] = sep
                      /\ \A j \in 1..(k - 1) : s[j] # sep
         IN  <<SubSeq(s, 1, i - 1)>> \o Split(SubSeq(s, i + 1, Len(s)), sep)

RECURSIVE Join(_, _)
\* sep.join(parts)
Join(parts, sep) ==
    IF parts = <<>> THEN <<>>
    ELSE IF Len(parts) = 1 THEN parts[1]
    ELSE parts[1] \o sep \o Join(Tail(parts), sep)

RECURSIVE LStrip(_)
LStrip(s) ==
    IF s # <<>> /\ Head(s) = " " THEN LStrip(Tail(s)) ELSE s

RECURSIVE RStrip(_)
RStrip(s) ==
    IF s # <<>> /\ s[Len(s)] = " " THEN RStrip(SubSeq(s, 1, Len(s) - 1)) ELSE s

\* s.strip()
Strip(s) == RStrip(LStrip(s))

RECURSIVE Replace(_, _, _)
\* s.replace(old, new) for a non-empty old: the occurrences of old are found
\* left to right, without overlap, and what replaces one is not searched again.
Replace(s, old, new) ==
    IF Len(s) < Len(old) THEN s
    ELSE IF StartsWith(s, old)
         THEN new \o Replace(SubSeq(s, Len(old) + 1, Len(s)), old, new)
         ELSE <<Head(s)>> \o Replace(Tail(s), old, new)

RECURSIVE Sorted(_)
\* sorted(S) of a set of str
Sorted(S) ==
    IF S = {} THEN <<>>
    ELSE LET m == CHOOSE x \in S : \A y \in S \ {x} : StrLess(x, y)
         IN  <<m>> \o Sorted(S \ {m})

\* set(seq)
ToSet(seq) == {seq[i] : i \in DOMAIN seq}

\* [x for x in seq if x]
RECURSIVE NonEmpty(_)
NonEmpty(seq) ==
    IF seq = <<>> THEN <<>>
    ELSE IF Head(seq) = <<>> THEN NonEmpty(Tail(seq))
    ELSE <<Head(seq)>> \o NonEmpty(Tail(seq))

\* All str over alphabet A of length at most n.
RECURSIVE StrUpTo(_, _)
StrUpTo(A, n) ==
    IF n = 0 THEN {<<>>}
    ELSE LET shorter == StrUpTo(A, n - 1)
         IN  shorter \cup {<<c>> \o s : c \in A, s \in {t \in shorter : Len(t) = n - 1}}

-----------------------------------------------------------------------------
(* configparser: the settings file and the merge of the source paths *)

\* A key a section does not have, a variable the environment does not have, a
\* file that does not exist: none of them is a str of one-character strings.
NoOption == <<"NoOption">>
Unset == <<"Unset">>
Absent == <<"Absent">>
NoFile == [exists |-> FALSE]

Comma == <<",">>

SuffixIsortCfg == <<".", "i", "s", "o", "r", "t", ".", "c", "f", "g">>
SuffixCfg == <<".", "c", "f", "g">>
SuffixIni == <<".", "i", "n", "i">>
SuffixToml == <<".", "t", "o", "m", "l">>
SuffixPyproject == <<"p", "y", "p", "r", "o", "j", "e", "c", "t">> \o SuffixToml

\* cfg_pairs with the generic .cfg pair moved to the front.
cfg_pairs_cfg_first ==
    << <<SuffixCfg, "isort">>,
       <<SuffixIsortCfg, "settings">>,
       <<SuffixIni, "isort">>,
       <<SuffixPyproject, "tool.isort">> >>

\* cfg_pairs of generate_config_with_projects, in its order.
cfg_pairs ==
    << <<SuffixIsortCfg, "settings">>,
       <<SuffixCfg, "isort">>,
       <<SuffixIni, "isort">>,
       <<SuffixPyproject, "tool.isort">> >>

\* The sections a settings file of the model may hold.
SectionNames == {"settings", "isort"}

\* A settings file on disk: its sections, the raw text after "src_paths =" in
\* each section that has the key, and the same for the DEFAULT section.
EmptyConfig ==
    [exists |-> TRUE,
     sections |-> {},
     src_paths |-> [s \in {} |-> NoOption],
     default_src_paths |-> NoOption]

\* ConfigParser.read: a missing file is skipped, and every value is stripped.
ConfigRead(file) ==
    LET value(raw) == IF raw = NoOption THEN NoOption ELSE Strip(raw)
    IN  IF ~file.exists THEN EmptyConfig
        ELSE [exists |-> TRUE,
              sections |-> file.sections,
              src_paths |-> [s \in file.sections |-> value(file.src_paths[s])],
              default_src_paths |-> value(file.default_src_paths)]

\* ConfigParser.add_section when the section is not in config.sections()
ConfigAddSection(config, section) ==
    IF section \in config.sections THEN config
    ELSE [config EXCEPT
            !.sections = @ \cup {section},
            !.src_paths = [s \in config.sections \cup {section} |->
                             IF s \in config.sections THEN config.src_paths[s]
                             ELSE NoOption]]

\* ConfigParser.get(section, "src_paths", fallback=...): the section's own
\* value, else the DEFAULT section's, else the fallback.
ConfigGet(config, section, fallback) ==
    IF section \in config.sections /\ config.src_paths[section] # NoOption
    THEN config.src_paths[section]
    ELSE IF config.default_src_paths # NoOption THEN config.default_src_paths
    ELSE fallback

\* ConfigParser.set(section, "src_paths", value)
ConfigSet(config, section, value) ==
    [config EXCEPT !.src_paths[section] = value]

\* ConfigParser.write: "key = value" lines, the value as it is held.
ConfigWrite(config) == config

\* ",".join(pkg for pkg in sorted(set(src_paths + known.split(","))) if pkg)
MergeSrcPaths(src_paths, known_src_paths) ==
    Join(NonEmpty(Sorted(ToSet(src_paths \o Split(known_src_paths, ",")))), Comma)

RECURSIVE FirstMatch(_, _, _)
\* The for loop over cfg_pairs: the index of the first pair whose suffix the
\* name ends with, 0 when the loop falls through.
FirstMatch(pairs, name, i) ==
    IF i > Len(pairs) THEN 0
    ELSE IF EndsWith(name, pairs[i][1]) THEN i
    ELSE FirstMatch(pairs, name, i + 1)

\* The loop falls through and the function returns without raising.
UnexpectedIgnored(name) == [raised |-> "none", output |-> NoFile]

\* What the loop falls through to: raise ValueError.
Unexpected(name) == [raised |-> "ValueError", output |-> NoFile]

\* generate_config_with_projects(existing, output, src_paths): the exception
\* it raises ("none" when it returns) and the file it writes at output.
generate_config_with_projects(name, existing, src_paths) ==
    LET i == FirstMatch(cfg_pairs, name, 1)
    IN  IF i = 0 THEN Unexpected(name)
        ELSE LET suffix == cfg_pairs[i][1]
                 section == cfg_pairs[i][2]
             IN  IF EndsWith(suffix, SuffixToml)
                 THEN [raised |-> "NotImplementedError", output |-> NoFile]
                 ELSE LET config == ConfigAddSection(ConfigRead(existing), section)
                          known_src_paths == ConfigGet(config, section, <<>>)
                          merged == MergeSrcPaths(src_paths, known_src_paths)
                      IN  [raised |-> "none",
                           output |-> ConfigWrite(ConfigSet(config, section, merged))]

-----------------------------------------------------------------------------
(* The process: environment, arguments, files *)

EnvNames ==
    {"BAZEL_TEST", "PY_ISORT_RUNNER_ARGS_FILE", "PY_VENV_RUNFILES_DIR",
     "RUNFILES_DIR", "TEST_TMPDIR", "PY_ISORT_MAIN"}

\* __file__ of the wrapper, and some other value PY_ISORT_MAIN may hold.
ScriptFile == <<"r", "u", "n", "n", "e", "r", ".", "p", "y">>
OtherFile == <<"o", "t", "h", "e", "r", ".", "p", "y">>
One == <<"1">>

\* Path(dir) / path, for normalized operands: an absolute path replaces dir.
PathJoin(dir, path) ==
    IF StartsWith(path, <<"/">>) THEN path
    ELSE IF dir = <<"/">> THEN dir \o path
    ELSE dir \o <<"/">> \o path

\* The directory locate_first_party_src_paths resolves the imports in.
RunfilesDir(env) ==
    IF env["PY_VENV_RUNFILES_DIR"] # Unset THEN env["PY_VENV_RUNFILES_DIR"]
    ELSE IF env["RUNFILES_DIR"] # Unset THEN env["RUNFILES_DIR"]
    ELSE Unset

\* locate_first_party_src_paths(imports)
locate_first_party_src_paths(env, imports) ==
    IF RunfilesDir(env) = Unset
    THEN [raised |-> "EnvironmentError", paths |-> <<>>]
    ELSE [raised |-> "none",
          paths |-> [i \in DOMAIN imports |-> PathJoin(RunfilesDir(env), imports[i])]]

\* Runfiles.Create() and _rlocation for the lookups of one run: the exception
\* a lookup raises, "none" when every file is found.
RunfilesLookup(runfiles) ==
    CASE runfiles = "create_fails" -> "EnvironmentError"
      [] runfiles = "entry_missing" -> "FileNotFoundError"
      [] runfiles = "file_missing" -> "FileNotFoundError"
      [] OTHER -> "none"

\* _maybe_runfile of --src and --settings-path: a runfiles lookup under
\* BAZEL_TEST, Path(arg) otherwise.
MaybeRunfile(env, runfiles) ==
    IF env["BAZEL_TEST"] = Unset THEN "none" ELSE RunfilesLookup(runfiles)

\* The exception parsing the arguments raises: main looks the args file up
\* under BAZEL_TEST and PY_ISORT_RUNNER_ARGS_FILE, then parse_args resolves
\* its paths.
ParseRaises(env, runfiles) ==
    IF /\ env["BAZEL_TEST"] # Unset
       /\ env["PY_ISORT_RUNNER_ARGS_FILE"] # Unset
       /\ RunfilesLookup(runfiles) # "none"
    THEN RunfilesLookup(runfiles)
    ELSE MaybeRunfile(env, runfiles)

\* The entrypoint the __main__ block runs in a process.
Entrypoint(sentinel, file) ==
    IF sentinel = file THEN "isort" ELSE "main"

\* The copy of os.environ without the sentinel.
ChildEnvironCopy(env) == env

\* environ of main: a copy of os.environ with PY_ISORT_MAIN = __file__.
ChildEnviron(env) == [env EXCEPT !["PY_ISORT_MAIN"] = ScriptFile]

\* An exception of the try block is swallowed and main goes on to the tool.
AfterTrySwallow(exc) == IF exc = "none" THEN "finally" ELSE "run"

\* Where control goes when the try block of main is left.
AfterTry(exc) == "finally"

\* Where control goes after the finally block: on to the result, or out of
\* main with the exception that was raised in the try block.
AfterFinally(exc) == IF exc = "none" THEN "result" ELSE "terminated"

\* The temporary directory is removed whether or not TEST_TMPDIR is set.
CleanupAlways(env, dir) == "removed"

\* The finally block: shutil.rmtree(temp_dir) unless TEST_TMPDIR is set.
Cleanup(env, dir) == IF env["TEST_TMPDIR"] = Unset THEN "removed" ELSE dir

\* The output sanitized for the failure message.
Sanitize(env, workdir, stdout) ==
    LET output == IF env["RUNFILES_DIR"] # Unset
                  THEN Replace(stdout, env["RUNFILES_DIR"], <<"/", "/">>)
                  ELSE stdout
    IN  Replace(output, workdir, <<"/">>)

\* sys.exit(1) for every failure.
ExitCodeFailure(returncode) == 1

\* sys.exit(result.returncode)
ExitCode(returncode) == returncode

\* The marker is touched: created when absent, left as it is otherwise.
WriteMarkerTouch(file) == IF file = Absent THEN <<>> ELSE file

\* args.marker.write_bytes(b"")
WriteMarker(file) == <<>>

-----------------------------------------------------------------------------
(* State *)

VARIABLES
    os_environ,     \* os.environ of the top-level process
    cwd,            \* Path.cwd()
    argv,           \* the command line: marker given, settings name, imports
    runfiles,       \* how the runfiles lookups of this run end
    settings_file,  \* the existing settings file
    isort,          \* what isort does when it runs: returncode and output
    marker_file,    \* content of the file at --marker, Absent when none
    procs,          \* the processes: <<top-level>> or <<top-level, child>>
    pc,             \* where the top-level process is
    args,           \* parse_args() of main
    environ,        \* environ of main, the child's environment
    imports,        \* locate_first_party_src_paths(args.imports)
    temp_dir,       \* "none", "exists" or "removed"
    temp_settings,  \* the config file written into temp_dir
    result,         \* subprocess.run's CompletedProcess
    raised,         \* the exception that ended main, "none" when none
    stderr,         \* what main printed to sys.stderr, Absent when nothing
    exit_code       \* exit status of the top-level process, -1 while it runs

vars ==
    <<os_environ, cwd, argv, runfiles, settings_file, isort, marker_file, procs,
      pc, args, environ, imports, temp_dir, temp_settings, result, raised,
      stderr, exit_code>>

\* What a run is given and never changes.
inputs == <<os_environ, cwd, argv, runfiles, settings_file, isort>>

NoArgs == [marker |-> FALSE, settings_path |-> <<>>, imports |-> <<>>]
NoResult == [returncode |-> -1, stdout |-> <<>>]

\* The state of the top-level process when it starts.
Started ==
    /\ procs = <<[file |-> ScriptFile,
                  sentinel |-> os_environ["PY_ISORT_MAIN"],
                  role |-> "unstarted"]>>
    /\ pc = "entry"
    /\ args = NoArgs
    /\ environ = os_environ
    /\ imports = <<>>
    /\ temp_dir = "none"
    /\ temp_settings = NoFile
    /\ result = NoResult
    /\ raised = "none"
    /\ stderr = Absent
    /\ exit_code = -1

-----------------------------------------------------------------------------
(* Actions *)

\* The __main__ block of process p: isort's entrypoint when PY_ISORT_MAIN is
\* this script, main otherwise.
Entry(p) ==
    /\ procs[p].role = "unstarted"
    /\ procs' = [procs EXCEPT ![p].role = Entrypoint(procs[p].sentinel, procs[p].file)]
    /\ pc' = IF p = 1
             THEN (IF Entrypoint(procs[p].sentinel, procs[p].file) = "main"
                   THEN "parse" ELSE "isort_main")
             ELSE pc
    /\ UNCHANGED <<inputs, marker_file, args, environ, imports, temp_dir,
                   temp_settings, result, raised, stderr, exit_code>>

\* isort_main() in process p. The top-level process ends with isort's exit
\* code; a child hands its exit code and output to subprocess.run.
IsortMain(p) ==
    /\ procs[p].role = "isort"
    /\ procs' = [procs EXCEPT ![p].role = "exited"]
    /\ IF p = 1
       THEN /\ pc' = "terminated"
            /\ exit_code' = isort.returncode
            /\ UNCHANGED result
       ELSE /\ pc' = AfterTry("none")
            /\ result' = [returncode |-> isort.returncode, stdout |-> isort.stdout]
            /\ UNCHANGED exit_code
    /\ UNCHANGED <<inputs, marker_file, args, environ, imports, temp_dir,
                   temp_settings, raised, stderr>>

\* main, lines 166-173: the arguments are parsed, runfiles looked up.
ParseArgs ==
    /\ pc = "parse"
    /\ IF ParseRaises(os_environ, runfiles) # "none"
       THEN /\ raised' = ParseRaises(os_environ, runfiles)
            /\ pc' = "terminated"
            /\ exit_code' = 1
            /\ UNCHANGED args
       ELSE /\ args' = argv
            /\ pc' = "environ"
            /\ UNCHANGED <<raised, exit_code>>
    /\ UNCHANGED <<inputs, marker_file, procs, environ, imports, temp_dir,
                   temp_settings, result, stderr>>

\* main, lines 175-176
CopyEnviron ==
    /\ pc = "environ"
    /\ environ' = ChildEnviron(os_environ)
    /\ pc' = "locate"
    /\ UNCHANGED <<inputs, marker_file, procs, args, imports, temp_dir,
                   temp_settings, result, raised, stderr, exit_code>>

\* main, line 178
LocateFirstParty ==
    /\ pc = "locate"
    /\ LET located == locate_first_party_src_paths(os_environ, args.imports)
       IN  IF located.raised # "none"
           THEN /\ raised' = located.raised
                /\ pc' = "terminated"
                /\ exit_code' = 1
                /\ UNCHANGED imports
           ELSE /\ imports' = located.paths
                /\ pc' = "mkdtemp"
                /\ UNCHANGED <<raised, exit_code>>
    /\ UNCHANGED <<inputs, marker_file, procs, args, environ, temp_dir,
                   temp_settings, result, stderr>>

\* main, lines 180-182
Mkdtemp ==
    /\ pc = "mkdtemp"
    /\ temp_dir' = "exists"
    /\ pc' = "generate"
    /\ UNCHANGED <<inputs, marker_file, procs, args, environ, imports,
                   temp_settings, result, raised, stderr, exit_code>>

\* main, lines 189-190, in the try block
GenerateConfig ==
    /\ pc = "generate"
    /\ LET generated ==
               generate_config_with_projects(args.settings_path, settings_file, imports)
       IN  /\ temp_settings' = generated.output
           /\ raised' = generated.raised
           /\ pc' = IF generated.raised = "none" THEN "run"
                    ELSE AfterTry(generated.raised)
    /\ UNCHANGED <<inputs, marker_file, procs, args, environ, imports, temp_dir,
                   result, stderr, exit_code>>

\* main, lines 192-204: subprocess.run starts [sys.executable, __file__, ...]
\* with env=environ and waits for it.
SubprocessRun ==
    /\ pc = "run"
    /\ procs' = Append(procs, [file |-> ScriptFile,
                               sentinel |-> environ["PY_ISORT_MAIN"],
                               role |-> "unstarted"])
    /\ pc' = "wait"
    /\ UNCHANGED <<inputs, marker_file, args, environ, imports, temp_dir,
                   temp_settings, result, raised, stderr, exit_code>>

\* main, lines 205-208: the finally block, then the exception goes on up.
Finally ==
    /\ pc = "finally"
    /\ temp_dir' = Cleanup(os_environ, temp_dir)
    /\ temp_settings' = IF Cleanup(os_environ, temp_dir) = "removed"
                        THEN NoFile ELSE temp_settings
    /\ pc' = AfterFinally(raised)
    /\ exit_code' = IF AfterFinally(raised) = "terminated" THEN 1 ELSE exit_code
    /\ UNCHANGED <<inputs, marker_file, procs, args, environ, imports, result,
                   raised, stderr>>

\* main, lines 210-223: a failure is relayed and exits with the same code, a
\* success writes the marker.
Result ==
    /\ pc = "result"
    /\ IF result.returncode # 0
       THEN /\ stderr' = Sanitize(os_environ, cwd, result.stdout)
            /\ exit_code' = ExitCode(result.returncode)
            /\ UNCHANGED marker_file
       ELSE /\ marker_file' = IF args.marker THEN WriteMarker(marker_file)
                              ELSE marker_file
            /\ exit_code' = 0
            /\ UNCHANGED stderr
    /\ pc' = "terminated"
    /\ UNCHANGED <<inputs, procs, args, environ, imports, temp_dir,
                   temp_settings, result, raised>>

Next ==
    \/ \E p \in DOMAIN procs : Entry(p)
    \/ \E p \in DOMAIN procs : IsortMain(p)
    \/ ParseArgs
    \/ CopyEnviron
    \/ LocateFirstParty
    \/ Mkdtemp
    \/ GenerateConfig
    \/ SubprocessRun
    \/ Finally
    \/ Result

-----------------------------------------------------------------------------
(* Inputs *)

Str(a) == <<a>>
DirR == <<"/", "r">>
DirV == <<"/", "v">>
DirC == <<"/", "c">>
DirT == <<"/", "t">>
PathRA == <<"/", "r", "/", "a">>
PathRB == <<"/", "r", "/", "b">>

NameIsortCfg == SuffixIsortCfg
NameSetupCfg == <<"a">> \o SuffixCfg
NameToxIni == <<"a">> \o SuffixIni
NamePyproject == SuffixPyproject
NameOtherToml == <<"a">> \o SuffixToml
NameNoDot == <<"c", "f", "g">>
NameTomlCfg == SuffixPyproject \o SuffixCfg

SettingsNames ==
    {NameIsortCfg, NameSetupCfg, NameToxIni, NamePyproject, NameOtherToml,
     NameNoDot, NameTomlCfg}

\* An environment with the given values, every other variable unset.
Env(bazel_test, args_file, venv_dir, runfiles_dir, test_tmpdir, main) ==
    [n \in EnvNames |->
        CASE n = "BAZEL_TEST" -> bazel_test
          [] n = "PY_ISORT_RUNNER_ARGS_FILE" -> args_file
          [] n = "PY_VENV_RUNFILES_DIR" -> venv_dir
          [] n = "RUNFILES_DIR" -> runfiles_dir
          [] n = "TEST_TMPDIR" -> test_tmpdir
          [] n = "PY_ISORT_MAIN" -> main]

\* The settings files whose src_paths value, if any, is one of values and
\* sits in one section or in DEFAULT.
SettingsFiles(values) ==
    {[exists |-> TRUE,
      sections |-> S,
      src_paths |-> [s \in S |-> IF s = s0 THEN v ELSE NoOption],
      default_src_paths |-> IF s0 = "DEFAULT" THEN v ELSE NoOption] :
        S \in SUBSET SectionNames,
        s0 \in SectionNames \cup {"DEFAULT"},
        v \in values \cup {NoOption}}
    \cup {NoFile}

\* The entries an existing src_paths value is written with, and what is
\* written between two of them.
Entries == {PathRA, PathRB, <<"x">>}
Separators == {<<",">>, <<",", " ">>}

RECURSIVE ValuesOf(_)
\* The raw src_paths values of exactly n entries.
ValuesOf(n) ==
    IF n = 0 THEN {<<>>}
    ELSE IF n = 1 THEN Entries
    ELSE {e \o sep \o v : e \in Entries, sep \in Separators, v \in ValuesOf(n - 1)}

\* The raw src_paths values of at most n entries.
ValuesUpTo(n) == UNION {ValuesOf(k) : k \in 0..n}

\* Directories: "/" and a tail of at most n characters, normalized.
Dirs(n) ==
    {<<"/">> \o t : t \in {u \in StrUpTo({"r", "c", "/"}, n) :
                              /\ u # <<>>
                              /\ u[1] # "/"
                              /\ u[Len(u)] # "/"
                              /\ ~Contains(u, <<"/", "/">>)}}

\* A whole run of the wrapper over its environments and command lines.
Init ==
    /\ \E bazel \in {<<Unset, Unset, "ok">>, <<One, Unset, "ok">>,
                     <<One, Str("k"), "create_fails">>,
                     <<One, Unset, "create_fails">>,
                     <<One, Str("k"), "entry_missing">>,
                     <<One, Unset, "file_missing">>} :
       \E venv_dir \in {Unset, DirV}, runfiles_dir \in {Unset, DirR},
          test_tmpdir \in {Unset, DirT},
          main \in {Unset, ScriptFile, OtherFile} :
          /\ os_environ = Env(bazel[1], bazel[2], venv_dir, runfiles_dir,
                              test_tmpdir, main)
          /\ runfiles = bazel[3]
    /\ cwd = DirC
    /\ argv \in [marker : BOOLEAN,
                 settings_path : {NameIsortCfg, NameSetupCfg, NamePyproject,
                                  NameOtherToml},
                 imports : {<<>>, <<Str("b"), Str("a")>>}]
    /\ settings_file \in
           {NoFile,
            [exists |-> TRUE, sections |-> {"isort"},
             src_paths |-> [s \in {"isort"} |-> Str("x")],
             default_src_paths |-> NoOption]}
    /\ isort \in {[returncode |-> 0, stdout |-> <<>>],
                  [returncode |-> 1, stdout |-> DirR \o DirC],
                  [returncode |-> 2, stdout |-> Str("x")],
                  [returncode |-> 255, stdout |-> <<>>]}
    /\ marker_file \in {Absent, Str("x")}
    /\ Started

Spec == Init /\ [][Next]_vars

\* generate_config_with_projects over names, existing files and imports.
InitMerge ==
    /\ os_environ = Env(Unset, Unset, Unset, DirR, Unset, Unset)
    /\ runfiles = "ok"
    /\ cwd = DirC
    /\ argv \in [marker : {TRUE},
                 settings_path : SettingsNames,
                 imports : {<<>>, <<Str("a")>>, <<Str("b"), Str("a")>>,
                            <<Str("a"), Str("a")>>, <<<<"b", ",", "a">>>>}]
    /\ settings_file \in SettingsFiles(ValuesUpTo(MaxEntries))
    /\ isort = [returncode |-> 0, stdout |-> <<>>]
    /\ marker_file = Absent
    /\ Started

SpecMerge == InitMerge /\ [][Next]_vars

\* The failure message over outputs, runfiles directories and working
\* directories.
InitRedact ==
    /\ \E runfiles_dir \in Dirs(MaxPathLen) \cup {Unset} :
          os_environ = Env(Unset, Unset, DirV, runfiles_dir, Unset, Unset)
    /\ runfiles = "ok"
    /\ cwd \in Dirs(MaxPathLen)
    /\ argv = [marker |-> TRUE, settings_path |-> NameSetupCfg, imports |-> <<>>]
    /\ settings_file = NoFile
    /\ isort \in {[returncode |-> 0, stdout |-> <<>>]}
                 \cup [returncode : {1}, stdout : StrUpTo({"/", "r", "c"}, MaxOutLen)]
    /\ marker_file = Absent
    /\ Started

SpecRedact == InitRedact /\ [][Next]_vars

-----------------------------------------------------------------------------
(* Properties *)

\* generate_config_with_projects has returned and its output is on disk.
Written == temp_settings.exists

\* generate_config_with_projects has been called and has returned or raised.
Generated == temp_dir # "none" /\ pc # "generate"

\* The section the claims name for a settings file name.
SectionOf(name) == IF EndsWith(name, SuffixIsortCfg) THEN "settings" ELSE "isort"

\* The src_paths value a reader of the file gets from the section.
ValueIn(file, section) == ConfigRead(file).src_paths[section]

\* How often x occurs in seq.
Count(seq, x) == Cardinality({i \in DOMAIN seq : seq[i] = x})

\* The entries are in ascending order.
Ascending(entries) ==
    \A i, j \in DOMAIN entries : i < j => ~StrLess(entries[j], entries[i])

\* The marker file starts absent or non-empty, so that an empty marker file
\* is one the wrapper wrote.
MarkerWritten == marker_file = <<>>

\* C1: for a supported settings file, a path that occurs more than once across
\* the computed src_paths and the existing src_paths entry occurs exactly once
\* in the written value, and merging the same src_paths again into the written
\* file yields the same src_paths value.
C1_DedupAndIdempotent ==
    Written =>
        LET section == SectionOf(args.settings_path)
            known == ConfigGet(ConfigAddSection(ConfigRead(settings_file), section),
                               section, <<>>)
            given == imports \o Split(known, ",")
            written == Split(ValueIn(temp_settings, section), ",")
            again == generate_config_with_projects(args.settings_path,
                                                   temp_settings, imports)
        IN  /\ \A p \in ToSet(given) \ {<<>>} :
                   Count(given, p) > 1 => Count(written, p) = 1
            /\ ValueIn(again.output, section) = ValueIn(temp_settings, section)

\* C2: for a supported settings file, the comma-separated entries of the
\* written src_paths value are in ascending order.
C2_WrittenSorted ==
    Written =>
        Ascending(Split(ValueIn(temp_settings, SectionOf(args.settings_path)), ","))

\* C3: on a non-zero exit of the tool, what the wrapper relays to stderr
\* contains neither the value of RUNFILES_DIR, when set, nor the working
\* directory.
C3_NoPathRelayed ==
    (pc = "terminated" /\ stderr # Absent) =>
        /\ ~Contains(stderr, cwd)
        /\ os_environ["RUNFILES_DIR"] # Unset =>
               ~Contains(stderr, os_environ["RUNFILES_DIR"])

\* C4: the wrapper exits with the exit code of the tool: with c when the
\* subprocess returned c # 0, and without a failure when it returned 0.
C4_ExitCodePropagated ==
    (pc = "terminated" /\ Len(procs) = 2) =>
        /\ result.returncode = isort.returncode
        /\ exit_code = isort.returncode

C4_Witness ==
    /\ pc = "terminated"
    /\ Len(procs) = 2
    /\ isort.returncode = 2
    /\ exit_code = 2

\* C5: when the tool exits with 0 and --marker is given, the marker file
\* exists and is empty when the wrapper has finished, also when a non-empty
\* file was there before.
C5_MarkerEmptyOnSuccess ==
    (pc = "terminated" /\ Len(procs) = 2 /\ result.returncode = 0 /\ args.marker) =>
        marker_file = <<>>

C5_Witness ==
    /\ pc = "terminated"
    /\ Len(procs) = 2
    /\ result.returncode = 0
    /\ args.marker
    /\ marker_file = <<>>
    /\ exit_code = 0

\* C6: for a settings file named pyproject.toml, and for every name that ends
\* in none of the recognized suffixes, generate_config_with_projects raises
\* and writes no output file.
C6_UnsupportedRaises ==
    LET name == args.settings_path
        unsupported ==
            \/ name = SuffixPyproject
            \/ \A suffix \in {SuffixIsortCfg, SuffixCfg, SuffixIni, SuffixPyproject} :
                   ~EndsWith(name, suffix)
    IN  (Generated /\ unsupported) =>
            /\ raised \in {"NotImplementedError", "ValueError"}
            /\ ~temp_settings.exists

C6_Witness ==
    /\ Generated
    /\ args.settings_path = NameNoDot
    /\ raised = "ValueError"
    /\ ~temp_settings.exists
    /\ pc = "terminated"

\* C7: a run in which a runfile is missing, the runfiles directory cannot be
\* resolved or the settings file has an unsupported format never invokes
\* the tool and never writes the marker file.
C7_ErrorsAbort ==
    raised \in {"FileNotFoundError", "EnvironmentError", "NotImplementedError",
                "ValueError"} =>
        /\ Len(procs) = 1
        /\ ~MarkerWritten
        /\ pc \in {"finally", "terminated"}

C7_Witness ==
    /\ pc = "terminated"
    /\ raised = "NotImplementedError"
    /\ args.marker
    /\ Len(procs) = 1
    /\ marker_file = Str("x")
    /\ exit_code = 1

\* C8: when main has ended, the temporary directory it created is removed if
\* TEST_TMPDIR is not set and is still there if it is set, on every path
\* that follows its creation; a run that aborts before creating it leaves
\* none.
C8_TempDirCleanup ==
    (pc = "terminated" /\ procs[1].role = "main") =>
        IF args = NoArgs \/ raised = "EnvironmentError"
        THEN temp_dir = "none"
        ELSE IF os_environ["TEST_TMPDIR"] = Unset
             THEN temp_dir = "removed"
             ELSE temp_dir = "exists"

C8_Witness ==
    /\ pc = "terminated"
    /\ raised = "ValueError"
    /\ os_environ["TEST_TMPDIR"] = Unset
    /\ temp_dir = "removed"

\* C9: a run makes at most one subprocess invocation; the child starts with
\* PY_ISORT_MAIN equal to its own script path, and a process that starts so
\* runs the tool's entrypoint, never main, and spawns nothing.
C9_OneSubprocess ==
    /\ Len(procs) <= 2
    /\ Len(procs) = 2 =>
           /\ procs[1].role = "main"
           /\ procs[2].sentinel = procs[2].file
    /\ \A p \in DOMAIN procs :
           procs[p].sentinel = procs[p].file =>
               /\ procs[p].role \in {"unstarted", "isort", "exited"}
               /\ p = Len(procs)

C9_Witness ==
    /\ Len(procs) = 2
    /\ procs[1].role = "main"
    /\ procs[2].role = "exited"
    /\ pc = "terminated"

\* C10: for a name ending in .isort.cfg the merged src_paths is written to
\* section settings and not to section isort; for any other name ending in
\* .cfg or .ini it is written to section isort; the section is created when
\* the existing file lacks it.
C10_SectionBySuffix ==
    Written =>
        LET name == args.settings_path
            section == IF EndsWith(name, SuffixIsortCfg) THEN "settings" ELSE "isort"
            other == IF EndsWith(name, SuffixIsortCfg) THEN "isort" ELSE "settings"
            old == ConfigRead(settings_file)
        IN  /\ EndsWith(name, SuffixCfg) \/ EndsWith(name, SuffixIni)
            /\ section \in temp_settings.sections
            /\ temp_settings.src_paths[section] # NoOption
            /\ \A i \in DOMAIN imports :
                   ~Contains(imports[i], Comma) =>
                       imports[i] \in ToSet(Split(temp_settings.src_paths[section], ","))
            /\ other \in temp_settings.sections <=> other \in old.sections
            /\ other \in old.sections =>
                   temp_settings.src_paths[other] = old.src_paths[other]

C10_Witness ==
    /\ Written
    /\ args.settings_path = NameIsortCfg
    /\ settings_file.exists
    /\ settings_file.sections = {"isort"}
    /\ settings_file.src_paths["isort"] = PathRB
    /\ imports = <<PathRA>>
    /\ temp_settings.sections = {"isort", "settings"}
    /\ temp_settings.src_paths["settings"] = PathRA
    /\ temp_settings.src_paths["isort"] = PathRB

=============================================================================
